---- MODULE Spec2Model ----
(***************************************************************************)
(* Model of the cache helpers `cache` and `cacheLatest`                    *)
(* (packages/cli/src/commands/experimental/setup/serverFile/serverFile.js, *)
(* lines 57-143).  Every `await` of the two async functions is one step of *)
(* a call, so that a call is a small state machine: its position is `pc`,   *)
(* its locals are the fields of the call record.  The memcached store, the  *)
(* database table behind `model` and the clock are the environment.         *)
(***************************************************************************)
EXTENDS Integers, Sequences, FiniteSets, TLC

VARIABLES
    store,   \* the memcached content: key string -> [value, opts]
    db,      \* the table behind `model`: id -> row
    now,     \* the clock at the latest write, in epoch milliseconds
    call,    \* per process: the call in flight (or the one just finished)
    prev,    \* the call that completed before the current one (history)
    since,   \* what the environment did since the last call returned (history)
    ncalls,  \* number of calls started so far
    query,   \* the query of the run's cacheLatest calls (SpecLatest)
    reused,  \* some write used a stamp not later than an earlier one (history)
    keyIn,   \* inputs of the key derivation (specification SpecKey)
    keyOut,  \* keys derived from keyIn (specification SpecKey)
    lastSet, \* the process whose memjs.set reached the store last (history)
    report   \* the version lister: its position, listing and report lines

vars == <<store, db, now, call, prev, since, ncalls, query, reused, keyIn, keyOut, lastSet, report>>

----------------------------------------------------------------------------
(* Bounds of the model *)

MaxId == 2          \* record ids are 1..MaxId
MaxTime == 3        \* writes happen at times 1..MaxTime
MaxCalls == 2       \* calls started in one behaviour
MaxKeyId == 12      \* ids of the key derivation are 1..MaxKeyId
MaxKeyTime == 12    \* stamps of the key derivation are 0..MaxKeyTime
NumProcs == 2       \* processes issuing calls
MaxPackages == 3    \* packages of a workspace listing

Ids == 1..MaxId
Times == 1..MaxTime
Procs == 1..NumProcs

----------------------------------------------------------------------------
(* JavaScript values *)

Undefined == [t |-> "undefined"]
Null == [t |-> "null"]
NaN == [t |-> "NaN"]
Num(n) == [t |-> "number", n |-> n]
Bool(b) == [t |-> "boolean", b |-> b]
Str(s) == [t |-> "string", s |-> s]
Date(ms) == [t |-> "Date", ms |-> ms]
Arr(a) == [t |-> "array", a |-> a]
Obj(id, isAdmin) == [t |-> "object", id |-> id, isAdmin |-> isAdmin]

\* what a producer invocation that throws leaves behind
Thrown == [t |-> "thrown"]

\* JavaScript truthiness, as used by `result.value` (line 68) and `data ||` (line 82)
Truthy(v) ==
    CASE v.t = "undefined" -> FALSE
      [] v.t = "null" -> FALSE
      [] v.t = "NaN" -> FALSE
      [] v.t = "number" -> v.n # 0
      [] v.t = "boolean" -> v.b
      [] v.t = "string" -> v.s # ""
      [] OTHER -> TRUE

\* Date.prototype.toISOString for 0 <= ms < 1000
toISOString(ms) ==
    "1970-01-01T00:00:00."
        \o (IF ms < 10 THEN "00" ELSE IF ms < 100 THEN "0" ELSE "")
        \o ToString(ms) \o "Z"

RECURSIVE JoinElements(_)
\* JSON.stringify(data) (line 78): the JSON text of a value
JSONstringify(v) ==
    CASE v.t = "null" -> "null"
      [] v.t = "NaN" -> "null"
      [] v.t = "number" -> ToString(v.n)
      [] v.t = "boolean" -> (IF v.b THEN "true" ELSE "false")
      [] v.t = "string" -> "\"" \o v.s \o "\""
      [] v.t = "Date" -> "\"" \o toISOString(v.ms) \o "\""
      [] v.t = "object" ->
            "{\"id\":" \o ToString(v.id) \o ",\"isAdmin\":"
                \o (IF v.isAdmin THEN "true" ELSE "false") \o "}"
      [] v.t = "array" -> "[" \o JoinElements(v.a) \o "]"

JoinElements(a) ==
    IF a = <<>> THEN ""
    ELSE IF Len(a) = 1 THEN JSONstringify(a[1])
    ELSE JSONstringify(a[1]) \o "," \o JoinElements(Tail(a))

\* the producer values of the plain cache calls
Results ==
    {Num(0), Num(1), Bool(FALSE), Str(""), Null, NaN, Date(1)}

RECURSIVE RowLists(_)
\* every list of row objects in increasing id order with ids >= lo
RowLists(lo) ==
    IF lo > MaxId THEN {<<>>}
    ELSE RowLists(lo + 1)
         \cup {<<Obj(lo, b)>> \o r : b \in BOOLEAN, r \in RowLists(lo + 1)}

\* the JSON-native values the texts of this model can denote
JsonValues ==
    {Null, Bool(TRUE), Bool(FALSE), Str("")}
        \cup {Num(n) : n \in 0..MaxId}
        \cup {Str(toISOString(ms)) : ms \in 0..MaxTime}
        \cup {Arr(r) : r \in RowLists(1)}

\* a text that is no JSON document
Garbage == "{"

\* the text of every JSON-native value
JsonText == [v \in JsonValues |-> JSONstringify(v)]

\* JSON.parse(result.value.toString()) (line 70): the value a text denotes;
\* a text that denotes none is a SyntaxError
JSONparse(text) ==
    IF \E v \in JsonValues : JsonText[v] = text
    THEN [ok |-> TRUE, v |-> CHOOSE v \in JsonValues : JsonText[v] = text]
    ELSE [ok |-> FALSE, v |-> Undefined]

----------------------------------------------------------------------------
(* The store: memjs.get / memjs.set *)

\* `options || {}` (line 78); expires = 0 stands for "no expires field"
NoExpires == [expires |-> 0]
OptionsOrEmpty(options) ==
    IF options = Undefined THEN NoExpires ELSE options

\* the bytes memjs hands back for a stored text
Buffer(text) == [t |-> "Buffer", s |-> text]

\* memjs.get(key) (line 65): { value: Buffer | null }
MemjsGet(key) ==
    [value |-> IF key \in DOMAIN store THEN Buffer(store[key].value) ELSE Null]

\* faulty variant of MemjsSet: an entry that exists is kept (memcached `add`)
MemjsAdd(key, text, opts) ==
    [k \in DOMAIN store \cup {key} |->
        IF k \in DOMAIN store THEN store[k] ELSE [value |-> text, opts |-> opts]]

\* memjs.set(key, text, opts) (line 78)
MemjsSet(key, text, opts) ==
    [k \in DOMAIN store \cup {key} |->
        IF k = key THEN [value |-> text, opts |-> opts] ELSE store[k]]

----------------------------------------------------------------------------
(* The database behind `model` *)

NoRow == [present |-> FALSE, updatedAt |-> 0, isAdmin |-> FALSE]

\* the condition objects of the model: { where: { isAdmin: true } } and {}
Conditions == {[where |-> "isAdmin"], [where |-> "any"]}
QueryFunctions == {"findMany", "count"}

Matches(id, conditions) ==
    /\ db[id].present
    /\ conditions.where = "isAdmin" => db[id].isAdmin

Matching(conditions) == {id \in Ids : Matches(id, conditions)}

\* model.findFirst({...conditions, orderBy: { updatedAt: 'desc' },
\* select: { id: true, updatedAt: true }}) (lines 131-135): the candidates
\* for the first row; rows with equal updatedAt come in no defined order
FindFirstRows(conditions) ==
    {id \in Matching(conditions) :
        \A other \in Matching(conditions) :
            db[other].updatedAt <= db[id].updatedAt}

\* the rows of a table that the conditions select
MatchingIn(table, conditions) ==
    {id \in Ids :
        /\ table[id].present
        /\ conditions.where = "isAdmin" => table[id].isAdmin}

RECURSIVE RowsIn(_, _, _)
RowsIn(table, lo, ids) ==
    IF lo > MaxId THEN <<>>
    ELSE (IF lo \in ids THEN <<Obj(lo, table[lo].isAdmin)>> ELSE <<>>)
            \o RowsIn(table, lo + 1, ids)

RowsFrom(lo, ids) == RowsIn(db, lo, ids)

\* model[queryFunction](conditions) on a given content of the table
QueryOn(table, queryFunction, conditions) ==
    IF queryFunction = "count"
    THEN Num(Cardinality(MatchingIn(table, conditions)))
    ELSE Arr(RowsIn(table, 1, MatchingIn(table, conditions)))

\* model[queryFunction](conditions) (lines 138, 141) on the current table
Query(queryFunction, conditions) == QueryOn(db, queryFunction, conditions)

\* faulty variant of DerivedKey: the key is made of the id alone
DerivedKeyOfId(key, id, updatedAt) == key \o "-" \o ToString(id)

\* faulty variant of DerivedKey: no separator between id and time stamp
DerivedKeyUnseparated(key, id, updatedAt) ==
    key \o "-" \o ToString(id) \o ToString(updatedAt)

\* `${key}-${latest.id}-${latest.updatedAt.getTime()}` (line 136)
DerivedKey(key, id, updatedAt) ==
    key \o "-" \o ToString(id) \o "-" \o ToString(updatedAt)

----------------------------------------------------------------------------
(* A call of cache or cacheLatest *)

IdleCall ==
    [pc |-> "idle", fn |-> "none",
     key |-> "", options |-> Undefined,
     queryFunction |-> "none", conditions |-> [where |-> "any"],
     cacheKey |-> "", rest |-> Undefined, latest |-> Null,
     data |-> Undefined, ret |-> Undefined, raised |-> FALSE, error |-> "none",
     \* history of the call
     outs |-> <<>>, gets |-> 0, sets |-> 0, faults |-> {}, keys |-> {},
     seen |-> {},
     probe |-> "none", hit |-> FALSE, empty |-> FALSE]

InFlight(p) == call[p].pc \notin {"idle", "done"}
Quiescent == \A p \in Procs : ~InFlight(p)

\* the environment of the sequential specifications acts between calls, as
\* long as a call can still follow
BetweenCalls == Quiescent /\ ncalls < MaxCalls

\* `return v`
Return(c, v) == [c EXCEPT !.pc = "done", !.ret = v, !.seen = {}]

\* an error leaving the async function: the returned promise rejects with
\* the error e, thrown by `input` or by memjs
Raise(c, e) ==
    [c EXCEPT !.pc = "done", !.raised = TRUE, !.error = e, !.seen = {}]

\* faulty variant of LatestInput: the operation is run without the conditions
LatestInputUnfiltered(c) == Query(c.queryFunction, [where |-> "any"])

\* `() => model[queryFunction](conditions)` (line 138): the producer that
\* cacheLatest hands to cache
LatestInput(c) == Query(c.queryFunction, c.conditions)

\* the outcomes of one invocation of `input`: any value or an error for the
\* producer of a plain cache call, the query on the current table or an
\* error for `() => model[queryFunction](conditions)` (line 138)
InputOutcomes(c) ==
    IF c.fn = "cache"
    THEN Results \cup {Thrown}
    ELSE {LatestInput(c), Thrown}

Invoked(c, out) == [c EXCEPT !.outs = Append(@, out)]

\* what a call leaves in `prev` when the next one starts
Threw(c) == Thrown \in {c.outs[i] : i \in DOMAIN c.outs}

Summary(c, events) ==
    [fn |-> c.fn, key |-> c.key, cacheKey |-> c.cacheKey,
     queryFunction |-> c.queryFunction, conditions |-> c.conditions,
     latest |-> c.latest, ret |-> c.ret, raised |-> c.raised,
     probe |-> c.probe, hit |-> c.hit, empty |-> c.empty,
     faults |-> c.faults, threw |-> Threw(c), since |-> events]

\* nothing happened between two calls
NoEvents == [writes |-> "none", disturbed |-> FALSE]

NoCall == Summary(IdleCall, NoEvents)

Begin(p, c) ==
    /\ ~InFlight(p)
    /\ ncalls < MaxCalls
    /\ ncalls' = ncalls + 1
    /\ prev' = IF call[p].pc = "done" THEN Summary(call[p], since) ELSE prev
    /\ since' = NoEvents
    /\ call' = [call EXCEPT ![p] = c]

\* cache(key, input, options) is called (lines 57-61)
Cache(p, key, options) ==
    /\ Begin(p, [IdleCall EXCEPT !.pc = "get", !.fn = "cache", !.key = key,
                    !.cacheKey = key, !.options = options, !.rest = options,
                    !.empty = (DOMAIN store = {})])
    /\ UNCHANGED <<store, db, now, query, reused, keyIn, keyOut, lastSet, report>>

\* faulty variant of IsHit: tests the parsed value instead of the Buffer
IsHitParsedValue(result) ==
    Truthy(result.value) /\ Truthy(JSONparse(result.value.s).v)

\* `if (result.value)` (line 68): a Buffer is truthy whatever its content
IsHit(result) == Truthy(result.value)

\* faulty variant of OuterCatch: the read error is rethrown
OuterCatchRethrows(c) == Raise(c, "memjs")

\* faulty variant of OuterCatch: a failed read continues as a MISS
OuterCatchAsMiss(c) == [c EXCEPT !.pc = "input"]

\* the handler of the outer catch (lines 84-87) is entered
OuterCatch(c) == [c EXCEPT !.pc = "catchGet"]

\* faulty variant of InnerCatch: `return data`, without the second invocation
InnerCatchReturnsData(c) == Return(c, c.data)

\* faulty variant of InnerCatch: the caught error is thrown again
InnerCatchRethrows(c) == Raise(c, "memjs")

\* the handler of the inner catch (lines 80-83): `return data || (await input())`
InnerCatch(c) ==
    IF Truthy(c.data) THEN Return(c, c.data) ELSE [c EXCEPT !.pc = "catchSet"]

\* faulty variant of Hit: the entry is refreshed from the producer
HitRefreshes(c, v) == [c EXCEPT !.hit = TRUE, !.pc = "input"]

\* the HIT branch (lines 69-70): return the parsed entry
Hit(c, v) == Return([c EXCEPT !.hit = TRUE], v)

\* lines 63-71: import memjs, create the client, read the key; on a HIT
\* parse the stored text and return it
Get(p, fails) ==
    LET c == [call[p] EXCEPT !.gets = @ + 1, !.keys = @ \cup {call[p].cacheKey}]
        result == MemjsGet(c.cacheKey)
        parsed == JSONparse(result.value.s)
    IN  /\ call[p].pc = "get"
        /\ call' = [call EXCEPT ![p] =
                IF fails THEN OuterCatch([c EXCEPT !.faults = @ \cup {"get"}])
                ELSE IF IsHit(result)
                THEN IF parsed.ok THEN Hit(c, parsed.v)
                     ELSE OuterCatch([c EXCEPT !.faults = @ \cup {"parse"}])
                ELSE [c EXCEPT !.pc = "input"]]
        /\ UNCHANGED <<store, db, now, prev, since, ncalls, query, reused, keyIn, keyOut, lastSet, report>>

\* line 77: data = await input()
Input(p) ==
    /\ call[p].pc = "input"
    /\ \E out \in InputOutcomes(call[p]) :
        call' = [call EXCEPT ![p] =
            IF out = Thrown THEN InnerCatch(Invoked(@, out))
            ELSE [Invoked(@, out) EXCEPT !.data = out, !.pc = "set"]]
    /\ UNCHANGED <<store, db, now, prev, since, ncalls, query, reused, keyIn, keyOut, lastSet, report>>

\* faulty variant of Set: the value is returned without being written
SetSkipsWrite(p, fails) ==
    /\ call[p].pc = "set"
    /\ call' = [call EXCEPT ![p] =
            IF fails
            THEN InnerCatch([@ EXCEPT !.sets = @ + 1, !.faults = @ \cup {"set"},
                                !.keys = @ \cup {call[p].cacheKey}])
            ELSE Return([@ EXCEPT !.sets = @ + 1,
                                !.keys = @ \cup {call[p].cacheKey}], @.data)]
    /\ UNCHANGED <<store, db, now, prev, since, ncalls, query, reused, keyIn, keyOut, lastSet, report>>

\* lines 78-79: await memjs.set(key, JSON.stringify(data), options || {});
\* return data
Set(p, fails) ==
    LET c == [call[p] EXCEPT !.sets = @ + 1, !.keys = @ \cup {call[p].cacheKey}]
    IN  /\ call[p].pc = "set"
        /\ IF fails
           THEN /\ call' = [call EXCEPT ![p] =
                        InnerCatch([c EXCEPT !.faults = @ \cup {"set"}])]
                /\ UNCHANGED <<store, lastSet>>
           ELSE /\ store' = MemjsSet(c.cacheKey, JSONstringify(c.data),
                                     OptionsOrEmpty(c.rest))
                /\ lastSet' = p
                /\ call' = [call EXCEPT ![p] =
                        Return(c, c.data)]
        /\ UNCHANGED <<db, now, prev, since, ncalls, query, reused, keyIn, keyOut, report>>

\* line 82: the `await input()` of the inner catch handler
CatchSet(p) ==
    /\ call[p].pc = "catchSet"
    /\ \E out \in InputOutcomes(call[p]) :
        call' = [call EXCEPT ![p] =
            IF out = Thrown THEN OuterCatch(Invoked(@, out))
            ELSE Return(Invoked(@, out), out)]
    /\ UNCHANGED <<store, db, now, prev, since, ncalls, query, reused, keyIn, keyOut, lastSet, report>>

\* line 86: `return await input()` of the outer catch handler
CatchGet(p) ==
    /\ call[p].pc = "catchGet"
    /\ \E out \in InputOutcomes(call[p]) :
        call' = [call EXCEPT ![p] =
            IF out = Thrown THEN Raise(Invoked(@, out), "input")
            ELSE Return(Invoked(@, out), out)]
    /\ UNCHANGED <<store, db, now, prev, since, ncalls, query, reused, keyIn, keyOut, lastSet, report>>

\* faulty variant of Rest: the options are forwarded with the model
RestKeepsModel(options) == options

\* `const { model, ...rest } = options` (line 123): the options without model
Rest(options) == [f \in DOMAIN options \ {"model"} |-> options[f]]

\* lines 117-125: cacheLatest(key, options, query) is called;
\* { model, ...rest } = options
CacheLatest(p, key, options, q) ==
    /\ Begin(p, [IdleCall EXCEPT !.pc = "findFirst", !.fn = "cacheLatest",
                    !.key = key, !.cacheKey = key, !.options = options,
                    !.rest = Rest(options),
                    !.queryFunction = q.queryFunction,
                    !.conditions = q.conditions,
                    !.empty = (DOMAIN store = {})])
    /\ UNCHANGED <<store, db, now, query, reused, keyIn, keyOut, lastSet, report>>

\* faulty variant of LatestCatch: the fallback goes through cache under the prefix
LatestCatchCached(c, why) == [c EXCEPT !.pc = "get", !.probe = why]

\* the catch handler of cacheLatest (lines 139-142) is entered
LatestCatch(c, why) == [c EXCEPT !.pc = "catchLatest", !.probe = why]

\* faulty variant of KeyPrefix: the operation name is part of the key
KeyPrefixWithOperation(c) == c.key \o "-" \o c.queryFunction

\* `${key}` of line 136: the prefix of the derived key is the key argument
KeyPrefix(c) == c.key

\* lines 130-138: the probe; a rejected findFirst and a null `latest`
\* (TypeError on latest.id) both enter the catch handler, otherwise the key
\* is derived and cache(cacheKey, ...) is called
FindFirst(p, fails) ==
    LET c == [call[p] EXCEPT !.seen = {LatestInput(call[p])}]
        rows == FindFirstRows(c.conditions)
    IN  /\ c.pc = "findFirst"
        /\ IF fails
           THEN call' = [call EXCEPT ![p] = LatestCatch(c, "threw")]
           ELSE IF rows = {}
           THEN call' = [call EXCEPT ![p] = LatestCatch(c, "empty")]
           ELSE \E id \in rows :
                call' = [call EXCEPT ![p] =
                    [c EXCEPT !.pc = "get", !.probe = "ok",
                        !.latest = [id |-> id, updatedAt |-> db[id].updatedAt],
                        !.cacheKey =
                            DerivedKey(KeyPrefix(c), id, db[id].updatedAt)]]
        /\ UNCHANGED <<store, db, now, prev, since, ncalls, query, reused, keyIn, keyOut, lastSet, report>>

\* lines 139-142: `return model[queryFunction](conditions)`
CatchLatest(p) ==
    /\ call[p].pc = "catchLatest"
    /\ \E out \in InputOutcomes(call[p]) :
        call' = [call EXCEPT ![p] =
            IF out = Thrown THEN Raise(Invoked(@, out), "input")
            ELSE Return(Invoked(@, out), out)]
    /\ UNCHANGED <<store, db, now, prev, since, ncalls, query, reused, keyIn, keyOut, lastSet, report>>

----------------------------------------------------------------------------
(* The environment: other writers of the table and of the store *)

\* history: `seen` of a cacheLatest call past its probe and not yet returned
\* holds the results of its operation on every content the table has had
\* since the probe; a write adds the result on the new content
Witnessing(c) ==
    c.fn = "cacheLatest" /\ c.pc \notin {"idle", "findFirst", "done"}

Observing(table) ==
    [p \in Procs |->
        IF Witnessing(call[p])
        THEN [call[p] EXCEPT !.seen =
                @ \cup {QueryOn(table, call[p].queryFunction, call[p].conditions)}]
        ELSE call[p]]

\* a write happens at a time t not before the latest write and stamps the
\* row with it (Prisma's @updatedAt); the stamp is fresh when it is later
\* than every stamp written so far
Fresh(t) == now < t

\* history: `since.disturbed` tells that the store lost or got an entry from
\* outside since the last call; `since.writes` is "update" when the only
\* write since the last call is one update, with a fresh stamp, of a row the
\* run's query matches
Written(kind) ==
    [since EXCEPT !.writes = IF @ = "none" THEN kind ELSE "other"]

Insert(id, isAdmin, t) ==
    /\ ~db[id].present
    /\ now <= t
    /\ db' = [db EXCEPT ![id] =
                [present |-> TRUE, updatedAt |-> t, isAdmin |-> isAdmin]]
    /\ now' = t
    /\ since' = Written("other")
    /\ reused' = (reused \/ ~Fresh(t))
    /\ call' = Observing(db')
    /\ UNCHANGED <<store, prev, ncalls, query, keyIn, keyOut, lastSet, report>>

Update(id, isAdmin, t) ==
    /\ db[id].present
    /\ now <= t
    /\ db' = [db EXCEPT ![id] =
                [present |-> TRUE, updatedAt |-> t, isAdmin |-> isAdmin]]
    /\ now' = t
    /\ since' = Written(IF Matches(id, query.conditions) /\ Fresh(t)
                        THEN "update" ELSE "other")
    /\ reused' = (reused \/ ~Fresh(t))
    /\ call' = Observing(db')
    /\ UNCHANGED <<store, prev, ncalls, query, keyIn, keyOut, lastSet, report>>

Delete(id) ==
    /\ db[id].present
    /\ db' = [db EXCEPT ![id] = NoRow]
    /\ since' = Written("other")
    /\ call' = Observing(db')
    /\ UNCHANGED <<store, now, prev, ncalls, query, reused, keyIn, keyOut, lastSet, report>>

\* the cache process throws an entry out, or the entry expires (lines 44-45)
Evict(key) ==
    /\ key \in DOMAIN store
    /\ store' = [k \in DOMAIN store \ {key} |-> store[k]]
    /\ since' = [since EXCEPT !.disturbed = TRUE]
    /\ UNCHANGED <<db, now, call, prev, ncalls, query, reused, keyIn, keyOut, lastSet, report>>

\* another client of the store leaves a text that is no JSON under the key
ForeignSet(key) ==
    /\ store' = MemjsSet(key, Garbage, NoExpires)
    /\ since' = [since EXCEPT !.disturbed = TRUE]
    /\ UNCHANGED <<db, now, call, prev, ncalls, query, reused, keyIn, keyOut, lastSet, report>>

----------------------------------------------------------------------------
(* The version lister: main of tasks/getLatestVersions.js *)

PackageNames == {"@redwoodjs/api", "@redwoodjs/web"}

\* the package names of a workspace listing (lines 18-20), in listing order
Listings == UNION {[1..n -> PackageNames] : n \in 0..MaxPackages}

\* what `yarn npm info <name> --json` can print (line 26)
InfoTexts ==
    {"<html>", "null", "{}",
     "{\"dist-tags\":{\"latest\":\"7.0.0\"}}",
     "{\"dist-tags\":{\"rc\":\"\"}}",
     "{\"dist-tags\":{\"rc\":\"7.0.0-rc.1\"}}"}

\* execSync (line 26): the command fails (execSync throws) or prints a text
Responses ==
    {[exit |-> 1, stdout |-> ""]}
        \cup {[exit |-> 0, stdout |-> text] : text \in InfoTexts}

\* JSON.parse(packageInfoJson) (line 29): `tags` is packageInfo['dist-tags']
\* and `rc` its rc field; an absent field is undefined
ParseInfo(text) ==
    CASE text = "null" -> [ok |-> TRUE, v |-> Null]
      [] text = "{}" ->
            [ok |-> TRUE, v |-> [t |-> "info", tags |-> FALSE, rc |-> Undefined]]
      [] text = "{\"dist-tags\":{\"latest\":\"7.0.0\"}}" ->
            [ok |-> TRUE, v |-> [t |-> "info", tags |-> TRUE, rc |-> Undefined]]
      [] text = "{\"dist-tags\":{\"rc\":\"\"}}" ->
            [ok |-> TRUE, v |-> [t |-> "info", tags |-> TRUE, rc |-> Str("")]]
      [] text = "{\"dist-tags\":{\"rc\":\"7.0.0-rc.1\"}}" ->
            [ok |-> TRUE,
             v |-> [t |-> "info", tags |-> TRUE, rc |-> Str("7.0.0-rc.1")]]
      [] OTHER -> [ok |-> FALSE, v |-> Undefined]

\* the report lines (lines 32-34, 36, 39-42)
RcLine(packageName, rc) ==
    "Latest RC version for " \o packageName \o ": " \o rc
NoRcLine(packageName) == "No RC version found for " \o packageName
ErrorLine(packageName) == "Error fetching information for " \o packageName \o ":"

IdleReport ==
    [pc |-> "idle", packages |-> <<>>, i |-> 0, queried |-> <<>>, lines |-> <<>>]

Logged(r, line) == [r EXCEPT !.lines = Append(@, line), !.i = @ + 1]

\* faulty variant of IterationCatch: the error ends the loop
IterationCatchAborts(r, packageName) ==
    [r EXCEPT !.lines = Append(@, ErrorLine(packageName)), !.pc = "failed"]

\* the catch handler of the loop body (lines 38-43): report and go on
IterationCatch(r, packageName) == Logged(r, ErrorLine(packageName))

\* the body of the loop for one package and one registry response
\* (lines 25-43); reading a field of null is a TypeError
Iteration(r, packageName, response) ==
    LET q == [r EXCEPT !.queried = Append(@, packageName)]
        parsed == ParseInfo(response.stdout)
    IN  IF response.exit # 0 THEN IterationCatch(q, packageName)
        ELSE IF ~parsed.ok THEN IterationCatch(q, packageName)
        ELSE IF parsed.v = Null THEN IterationCatch(q, packageName)
        ELSE IF parsed.v.tags /\ Truthy(parsed.v.rc)
        THEN Logged(q, RcLine(packageName, parsed.v.rc.s))
        ELSE Logged(q, NoRcLine(packageName))

\* lines 5-22: the workspace listing; when the command or the parse of its
\* output fails, main rejects and the error is logged (lines 47-49)
ListWorkspaces ==
    /\ report.pc = "list"
    /\ \/ report' = [report EXCEPT !.pc = "failed"]
       \/ \E listing \in Listings :
            report' = [report EXCEPT !.pc = "loop", !.packages = listing, !.i = 1]
    /\ UNCHANGED <<store, db, now, call, prev, since, ncalls, query, reused, keyIn, keyOut, lastSet>>

\* one turn of `for (const packageName of workspacePackages)` (line 24)
Iterate ==
    /\ report.pc = "loop"
    /\ report.i <= Len(report.packages)
    /\ \E response \in Responses :
        report' = Iteration(report, report.packages[report.i], response)
    /\ UNCHANGED <<store, db, now, call, prev, since, ncalls, query, reused, keyIn, keyOut, lastSet>>

\* the loop is over after the last package; main returns (line 45)
Finish ==
    /\ report.pc = "loop"
    /\ report.i > Len(report.packages)
    /\ report' = [report EXCEPT !.pc = "done"]
    /\ UNCHANGED <<store, db, now, call, prev, since, ncalls, query, reused, keyIn, keyOut, lastSet>>

----------------------------------------------------------------------------
(* Specifications *)

Keys == {"x", "y"}
CacheOptions == {Undefined, [expires |-> 30]}
LatestOptions == {[model |-> "db", expires |-> 0], [model |-> "db", expires |-> 30]}
Queries == [queryFunction : QueryFunctions, conditions : Conditions]
Prefix == "posts"

NoKeyIn == [key |-> "", a |-> Null, b |-> Null]

\* the process of the sequential specifications
Caller == CHOOSE p \in Procs : \A q \in Procs : p <= q

InitCommon ==
    /\ store = [k \in {} |-> [value |-> "", opts |-> NoExpires]]
    /\ db = [id \in Ids |-> NoRow]
    /\ now = 0
    /\ call = [p \in Procs |-> IdleCall]
    /\ prev = NoCall
    /\ since = NoEvents
    /\ ncalls = 0
    /\ reused = FALSE
    /\ lastSet = 0

\* SpecCache: plain cache calls, one after the other, on a store that may
\* fail, evict and hold foreign texts
InitCache ==
    /\ InitCommon
    /\ report = IdleReport
    /\ keyIn = NoKeyIn
    /\ keyOut = <<>>
    /\ query = [queryFunction |-> "none", conditions |-> [where |-> "any"]]

NextCache ==
    \/ \E key \in Keys, options \in CacheOptions : Cache(Caller, key, options)
    \/ \E fails \in BOOLEAN : Get(Caller, fails)
    \/ Input(Caller)
    \/ \E fails \in BOOLEAN : Set(Caller, fails)
    \/ CatchSet(Caller)
    \/ CatchGet(Caller)
    \/ \E key \in Keys : BetweenCalls /\ Evict(key)
    \/ \E key \in Keys : BetweenCalls /\ ForeignSet(key)

SpecCache == InitCache /\ [][NextCache]_vars

\* SpecLatest: cacheLatest calls with one prefix and one query, one after
\* the other, between writes to the table
InitLatest ==
    /\ InitCommon
    /\ report = IdleReport
    /\ keyIn = NoKeyIn
    /\ keyOut = <<>>
    /\ query \in Queries

NextLatest ==
    \/ \E options \in LatestOptions : CacheLatest(Caller, Prefix, options, query)
    \/ \E fails \in BOOLEAN : FindFirst(Caller, fails)
    \/ CatchLatest(Caller)
    \/ \E fails \in BOOLEAN : Get(Caller, fails)
    \/ Input(Caller)
    \/ \E fails \in BOOLEAN : Set(Caller, fails)
    \/ CatchSet(Caller)
    \/ CatchGet(Caller)
    \/ \E id \in Ids, isAdmin \in BOOLEAN, t \in Times :
            BetweenCalls /\ Insert(id, isAdmin, t)
    \/ \E id \in Ids, isAdmin \in BOOLEAN, t \in Times :
            BetweenCalls /\ Update(id, isAdmin, t)
    \/ \E id \in Ids : BetweenCalls /\ Delete(id)
    \/ \E key \in DOMAIN store : BetweenCalls /\ Evict(key)

SpecLatest == InitLatest /\ [][NextLatest]_vars

\* SpecKey: the key derivation of cacheLatest (line 136) applied to two
\* probe results under one prefix
Probes == [id : 1..MaxKeyId, updatedAt : 0..MaxKeyTime]
Prefixes == {Prefix, "posts-1"}

InitKey ==
    /\ InitCommon
    /\ report = IdleReport
    /\ query = [queryFunction |-> "none", conditions |-> [where |-> "any"]]
    /\ keyIn \in [key : Prefixes, a : Probes, b : Probes]
    /\ keyOut = <<>>

Derive ==
    /\ keyOut = <<>>
    /\ keyOut' = <<DerivedKey(keyIn.key, keyIn.a.id, keyIn.a.updatedAt),
                   DerivedKey(keyIn.key, keyIn.b.id, keyIn.b.updatedAt)>>
    /\ UNCHANGED <<store, db, now, call, prev, since, ncalls, query, reused, keyIn, lastSet, report>>

NextKey == Derive

SpecKey == InitKey /\ [][NextKey]_vars

\* SpecOptions: cache and cacheLatest calls, one after the other, with and
\* without expiration, on a table that gets rows
InitOptions ==
    /\ InitCommon
    /\ report = IdleReport
    /\ keyIn = NoKeyIn
    /\ keyOut = <<>>
    /\ query = [queryFunction |-> "findMany", conditions |-> [where |-> "any"]]

NextOptions ==
    \/ \E options \in CacheOptions : Cache(Caller, Prefix, options)
    \/ \E options \in LatestOptions : CacheLatest(Caller, Prefix, options, query)
    \/ FindFirst(Caller, FALSE)
    \/ CatchLatest(Caller)
    \/ Get(Caller, FALSE)
    \/ Input(Caller)
    \/ \E fails \in BOOLEAN : Set(Caller, fails)
    \/ CatchSet(Caller)
    \/ CatchGet(Caller)
    \/ \E id \in Ids, isAdmin \in BOOLEAN, t \in Times :
            BetweenCalls /\ Insert(id, isAdmin, t)

SpecOptions == InitOptions /\ [][NextOptions]_vars

\* SpecRace: every process calls cache once, all with one key, on an empty
\* store; the steps of the calls interleave in every order
InitRace ==
    /\ InitCommon
    /\ report = IdleReport
    /\ keyIn = NoKeyIn
    /\ keyOut = <<>>
    /\ query = [queryFunction |-> "none", conditions |-> [where |-> "any"]]

\* a step of the call of process p
CacheStep(p) ==
    \/ \E fails \in BOOLEAN : Get(p, fails)
    \/ Input(p)
    \/ \E fails \in BOOLEAN : Set(p, fails)
    \/ CatchSet(p)
    \/ CatchGet(p)

NextRace ==
    \/ \E p \in Procs : call[p].pc = "idle" /\ Cache(p, Prefix, Undefined)
    \/ \E p \in Procs : CacheStep(p)

SpecRace == InitRace /\ [][NextRace]_vars

\* SpecFilters: cacheLatest calls with one prefix, each with any operation
\* and any filter, one after the other, between inserts and updates
InitFilters ==
    /\ InitCommon
    /\ report = IdleReport
    /\ keyIn = NoKeyIn
    /\ keyOut = <<>>
    /\ query = [queryFunction |-> "none", conditions |-> [where |-> "any"]]

NextFilters ==
    \/ \E q \in Queries :
            CacheLatest(Caller, Prefix, [model |-> "db", expires |-> 0], q)
    \/ \E fails \in BOOLEAN : FindFirst(Caller, fails)
    \/ CatchLatest(Caller)
    \/ \E fails \in BOOLEAN : Get(Caller, fails)
    \/ Input(Caller)
    \/ \E fails \in BOOLEAN : Set(Caller, fails)
    \/ CatchSet(Caller)
    \/ CatchGet(Caller)
    \/ \E id \in Ids, isAdmin \in BOOLEAN, t \in Times :
            BetweenCalls /\ Insert(id, isAdmin, t)
    \/ \E id \in Ids, isAdmin \in BOOLEAN, t \in Times :
            BetweenCalls /\ Update(id, isAdmin, t)

SpecFilters == InitFilters /\ [][NextFilters]_vars

\* SpecConc: every process calls cacheLatest once, all with one prefix and
\* one query, while the table is written; the steps of the calls and the writes
\* interleave in every order.  The writes are inserts and updates with a
\* stamp later than every stamp so far, and no update takes a row out of the
\* result set of the query.
InitConc ==
    /\ InitCommon
    /\ report = IdleReport
    /\ keyIn = NoKeyIn
    /\ keyOut = <<>>
    /\ query \in Queries

\* the update leaves the row in the result set if it is in it
Stays(id, isAdmin) ==
    Matches(id, query.conditions) =>
        (query.conditions.where = "isAdmin" => isAdmin)

\* a step of the call of process p
LatestStep(p) ==
    \/ \E fails \in BOOLEAN : FindFirst(p, fails)
    \/ CatchLatest(p)
    \/ \E fails \in BOOLEAN : Get(p, fails)
    \/ Input(p)
    \/ \E fails \in BOOLEAN : Set(p, fails)
    \/ CatchSet(p)
    \/ CatchGet(p)

NextConc ==
    \/ \E p \in Procs :
            /\ call[p].pc = "idle"
            /\ CacheLatest(p, Prefix, [model |-> "db", expires |-> 0], query)
    \/ \E p \in Procs : LatestStep(p)
    \/ \E id \in Ids, isAdmin \in BOOLEAN, t \in Times :
            Fresh(t) /\ Insert(id, isAdmin, t)
    \/ \E id \in Ids, isAdmin \in BOOLEAN, t \in Times :
            Fresh(t) /\ Stays(id, isAdmin) /\ Update(id, isAdmin, t)

SpecConc == InitConc /\ [][NextConc]_vars

\* SpecVersions: one run of the version lister; SpecVersionsFair adds that
\* the run goes on while it can (the script is a sequential program)
InitVersions ==
    /\ InitCommon
    /\ keyIn = NoKeyIn
    /\ keyOut = <<>>
    /\ query = [queryFunction |-> "none", conditions |-> [where |-> "any"]]
    /\ report = [IdleReport EXCEPT !.pc = "list"]

NextVersions ==
    \/ ListWorkspaces
    \/ Iterate
    \/ Finish

SpecVersions == InitVersions /\ [][NextVersions]_vars

SpecVersionsFair == SpecVersions /\ WF_vars(NextVersions)

----------------------------------------------------------------------------
(* Properties of cache, checked under SpecCache *)

\* the call of the sequential specifications: in flight, or the last one
cur == call[Caller]

Finished(fn) == cur.pc = "done" /\ cur.fn = fn

\* the call read the store and found no entry for its key
Missed(c) == c.gets = 1 /\ ~c.hit /\ c.faults \cap {"get", "parse"} = {}

\* the value comes back from the store as it went in
SurvivesJSON(v) == JSONparse(JSONstringify(v)) = [ok |-> TRUE, v |-> v]

\* the finished call follows at once, on the same key and without a store
\* fault, a call that began on an empty store, met no store fault and whose
\* producer returned
SecondOfTwo ==
    /\ Finished("cache")
    /\ prev.fn = "cache" /\ prev.cacheKey = cur.key
    /\ prev.empty /\ prev.faults = {} /\ ~prev.threw
    /\ prev.since = NoEvents
    /\ cur.faults = {}

\* a call on an empty store without store fault whose producer returns:
\* the producer's value is returned and, until the store is disturbed, its
\* text is stored under the key
FirstOfTwo ==
    (Finished("cache") /\ cur.empty /\ cur.faults = {} /\ ~Threw(cur)
            /\ since = NoEvents)
        => /\ ~cur.raised
           /\ Len(cur.outs) = 1 /\ cur.ret = cur.outs[1]
           /\ cur.key \in DOMAIN store
           /\ store[cur.key].value = JSONstringify(cur.ret)

C2_FaultsInvisible ==
    (Finished("cache") /\ ~Threw(cur)) =>
        /\ ~cur.raised
        /\ cur.faults # {} =>
            /\ Len(cur.outs) >= 1
            /\ cur.ret = cur.outs[Len(cur.outs)]

C2_Witness ==
    /\ Finished("cache") /\ ~Threw(cur)
    /\ "parse" \in cur.faults /\ cur.ret = Num(1)

\* C3: when the store read throws, the producer is invoked exactly once,
\* the store is not written, and the call returns that invocation's value
\* (or raises its error)
C3_ReadFailureBypasses ==
    (Finished("cache") /\ "get" \in cur.faults) =>
        /\ Len(cur.outs) = 1
        /\ cur.sets = 0
        /\ IF cur.outs[1] = Thrown THEN cur.raised
           ELSE ~cur.raised /\ cur.ret = cur.outs[1]

C3_Witness ==
    /\ Finished("cache") /\ "get" \in cur.faults
    /\ cur.key \in DOMAIN store
    /\ cur.ret = Num(1)

\* C4 as stated: after a MISS whose producer invocation returned a value,
\* a throwing store write is not raised and the call returns the value of
\* that invocation, whatever the value (0, false, "" and null included)
C4_WriteFailureKeepsValue ==
    (Finished("cache") /\ "set" \in cur.faults) =>
        /\ ~cur.raised
        /\ cur.ret = cur.outs[1]

\* C5 as stated: a producer that throws on the MISS path makes the call
\* raise, no value is returned
C5_AsStated ==
    (Finished("cache") /\ Missed(cur) /\ cur.outs[1] = Thrown) => cur.raised

\* C5 (amended): a producer error on the MISS path is caught by the inner
\* handler, which invokes the producer again, and an error of that
\* invocation by the outer handler, which invokes it a third time; the call
\* raises exactly when all three invocations throw, and otherwise returns
\* the value of the first invocation that returned; the store is not written
C5_MissErrorRetried ==
    (Finished("cache") /\ Missed(cur) /\ cur.outs[1] = Thrown) =>
        /\ cur.sets = 0
        /\ Len(cur.outs) \in {2, 3}
        /\ \A i \in 1..(Len(cur.outs) - 1) : cur.outs[i] = Thrown
        /\ IF cur.outs[Len(cur.outs)] = Thrown
           THEN cur.raised /\ Len(cur.outs) = 3
           ELSE ~cur.raised /\ cur.ret = cur.outs[Len(cur.outs)]

C5_Witness ==
    /\ Finished("cache") /\ Missed(cur)
    /\ cur.outs = <<Thrown, Thrown, Thrown>> /\ cur.raised

----------------------------------------------------------------------------
(* Properties of cacheLatest, checked under SpecLatest and SpecKey *)

\* the finished cacheLatest call and the one before it have the same
\* prefix, operation and filter, both probes found the same latest record,
\* no store operation of either failed and the store lost nothing between
SameLatestTwice ==
    /\ Finished("cacheLatest") /\ prev.fn = "cacheLatest"
    /\ prev.key = cur.key
    /\ prev.queryFunction = cur.queryFunction
    /\ prev.conditions = cur.conditions
    /\ prev.probe = "ok" /\ cur.probe = "ok"
    /\ prev.latest = cur.latest
    /\ prev.faults = {} /\ cur.faults = {}
    /\ ~prev.since.disturbed

C7_KeyInjective ==
    (keyOut # <<>> /\ keyIn.a # keyIn.b) => keyOut[1] # keyOut[2]

C7_Witness ==
    /\ keyOut # <<>>
    /\ keyIn.a = [id |-> 1, updatedAt |-> 12]
    /\ keyIn.b = [id |-> 11, updatedAt |-> 2]

\* C8 as stated: after an update (with a stamp later than every stamp in
\* the table, no two writes sharing a stamp) of a record of the result set,
\* the next cacheLatest call uses
\* another key than the call before the update and is not served the entry
\* cached before it
C8_UpdateChangesKey ==
    (Finished("cacheLatest") /\ prev.fn = "cacheLatest" /\ prev.probe = "ok"
            /\ prev.since.writes = "update" /\ ~reused)
        => (cur.cacheKey # prev.cacheKey /\ ~cur.hit)

\* C9 as stated: with no store failure, sequential writes to the table (here
\* even only writes whose stamps are later than every stamp in the table)
\* and cacheLatest calls of one prefix, operation and filter, a call that
\* does not raise returns the result of the operation on the table as it is
\* at the call
C9_NeverStale ==
    (Finished("cacheLatest") /\ ~cur.raised
            /\ cur.faults = {} /\ prev.faults = {}
            /\ ~reused /\ since.writes = "none")
        => cur.ret = Query(cur.queryFunction, cur.conditions)

\* C10: when the probe throws or finds no record, cacheLatest invokes the
\* original operation exactly once and returns its result (or raises its
\* error) without reading or writing the store
C10_ProbeFailureUncached ==
    (Finished("cacheLatest") /\ cur.probe \in {"threw", "empty"}) =>
        /\ Len(cur.outs) = 1
        /\ cur.gets = 0 /\ cur.sets = 0
        /\ cur.cacheKey = cur.key
        /\ IF cur.outs[1] = Thrown THEN cur.raised
           ELSE ~cur.raised /\ cur.ret = cur.outs[1]

C10_Witness ==
    /\ Finished("cacheLatest") /\ cur.probe = "empty"
    /\ cur.ret = Arr(<<>>) /\ store = <<>>

\* C11: when the probe finds the record (id, updatedAt), the one store key
\* the call reads or writes is key-id-updatedAt (in epoch milliseconds), the
\* producer is the original operation on the conditions of the probe, and
\* the call ends as the cache call ends: with the parse of the entry on a
\* HIT, else with the value or the error of the last producer invocation
C11_DelegatesUnderDerivedKey ==
    (Finished("cacheLatest") /\ cur.probe = "ok") =>
        /\ cur.cacheKey =
                DerivedKey(cur.key, cur.latest.id, cur.latest.updatedAt)
        /\ cur.gets = 1 /\ cur.sets <= 1
        /\ cur.keys = {cur.cacheKey}
        /\ cur.queryFunction = query.queryFunction
        /\ cur.conditions = query.conditions
        /\ since.writes = "none" =>
            /\ cur.latest.id \in FindFirstRows(query.conditions)
            /\ cur.latest.updatedAt = db[cur.latest.id].updatedAt
            /\ \A i \in DOMAIN cur.outs :
                cur.outs[i] \in
                    {Thrown, Query(query.queryFunction, query.conditions)}
        /\ IF cur.hit
           THEN /\ cur.outs = <<>> /\ ~cur.raised
                /\ since = NoEvents =>
                    cur.ret = JSONparse(store[cur.cacheKey].value).v
           ELSE /\ cur.outs # <<>>
                /\ IF cur.outs[Len(cur.outs)] = Thrown THEN cur.raised
                   ELSE ~cur.raised /\ cur.ret = cur.outs[Len(cur.outs)]

C11_Witness ==
    /\ Finished("cacheLatest") /\ cur.probe = "ok"
    /\ cur.latest = [id |-> 2, updatedAt |-> 3]
    /\ cur.keys = {"posts-2-3"} /\ cur.sets = 1 /\ cur.faults = {}
    /\ cur.conditions = [where |-> "isAdmin"]
    /\ cur.ret = Arr(<<Obj(2, TRUE)>>)
    /\ db[1].present

----------------------------------------------------------------------------
(* Properties of the version lister, checked under SpecVersionsFair *)

\* the lines one package can produce
LinesOf(packageName) ==
    {RcLine(packageName, "7.0.0-rc.1"), NoRcLine(packageName),
     ErrorLine(packageName)}

\* after a listing, the packages queried so far are the first i - 1 of the
\* listing, each once and in order, with one report line each; the run is
\* over only after the last package
OnePerPackage ==
    report.pc \in {"loop", "done"} =>
        /\ report.i \in 1..(Len(report.packages) + 1)
        /\ report.queried = SubSeq(report.packages, 1, report.i - 1)
        /\ Len(report.lines) = report.i - 1
        /\ \A k \in 1..(report.i - 1) :
                report.lines[k] \in LinesOf(report.packages[k])
        /\ report.pc = "done" => report.i = Len(report.packages) + 1

\* C12: once the listing succeeded every package is queried exactly once, in
\* listing order, and gives exactly one report line; a failing query or
\* parse neither ends the loop nor skips a package nor is retried; the run
\* terminates
C12_OneLinePerPackage ==
    /\ []OnePerPackage
    /\ []((report.pc = "failed") => (report.lines = <<>>))
    /\ <>(report.pc \in {"done", "failed"})

C12_Witness ==
    /\ report.pc = "done"
    /\ report.packages = <<"@redwoodjs/api", "@redwoodjs/web", "@redwoodjs/api">>
    /\ report.lines = <<ErrorLine("@redwoodjs/api"),
                        RcLine("@redwoodjs/web", "7.0.0-rc.1"),
                        NoRcLine("@redwoodjs/api")>>

----------------------------------------------------------------------------
(* Further properties of cache, checked under SpecCache *)

\* C13 as stated: when the store write of the MISS path fails, the first
\* producer invocation has produced a value (the write comes after it), so
\* the producer is invoked exactly once in the call, whatever the value
C13_WriteFailureInvokesOnce ==
    (Finished("cache") /\ "set" \in cur.faults) =>
        /\ cur.outs[1] # Thrown
        /\ Len(cur.outs) = 1

\* a step in which a call reads a present, well-formed entry
HitStep(p) ==
    /\ call[p].pc = "get" /\ call'[p].gets = call[p].gets + 1
    /\ "get" \notin call'[p].faults
    /\ call[p].cacheKey \in DOMAIN store
    /\ JSONparse(store[call[p].cacheKey].value).ok

\* C14: a call whose read returns a present, well-formed entry ends with
\* that read: it returns the parse of the entry, whatever the producer would
\* return, the producer is not invoked and the store is left as it is
C14_HitReadsOnly ==
    [][\A p \in Procs : HitStep(p) =>
            /\ call'[p].pc = "done" /\ ~call'[p].raised /\ call'[p].hit
            /\ call'[p].ret = JSONparse(store[call[p].cacheKey].value).v
            /\ call'[p].outs = <<>> /\ call'[p].sets = 0
            /\ store' = store]_vars

C14_Witness ==
    /\ Finished("cache") /\ cur.hit /\ cur.ret = Str(toISOString(1))
    /\ prev.ret = Date(1)
    /\ store[cur.key].value = JSONstringify(Date(1))

----------------------------------------------------------------------------
(* Properties of the options, checked under SpecOptions *)

\* the finished call wrote the store and the store has not changed since
WroteLast ==
    /\ cur.pc = "done" /\ cur.sets = 1 /\ "set" \notin cur.faults
    /\ since = NoEvents

\* C15: the entry is written with exactly the options cache was given (the
\* empty option set, no expiration, when it was given none); cacheLatest
\* hands its options on without the model, so that the model never reaches
\* the store and the expires of the write is the caller's
C15_OptionsReachStore ==
    WroteLast =>
        LET opts == store[cur.cacheKey].opts
        IN  /\ DOMAIN opts = {"expires"}
            /\ cur.fn = "cache" =>
                    opts = (IF cur.options = Undefined
                            THEN [expires |-> 0] ELSE cur.options)
            /\ cur.fn = "cacheLatest" =>
                    opts.expires = cur.options.expires

C15_Witness ==
    /\ WroteLast /\ cur.fn = "cacheLatest"
    /\ cur.options = [model |-> "db", expires |-> 30]
    /\ store[cur.cacheKey].opts = [expires |-> 30]
    /\ prev.fn = "cache" /\ prev.cacheKey \in DOMAIN store
    /\ store[prev.cacheKey].opts = [expires |-> 0]

----------------------------------------------------------------------------
(* Properties of concurrent cache calls, checked under SpecRace *)

\* C16: calls of cache with one key that run concurrently on an empty store,
\* their steps interleaved in any order: a call in flight can always take
\* its next step (nothing blocks), a call whose producer returns does not
\* raise, and the entry at the key is the text of the write that came last
\* (there is no entry while no write came through); that several calls see
\* a MISS and each invoke their producer is the witness
C16_LastWriterWins ==
    /\ \A p \in Procs :
        /\ InFlight(p) => ENABLED CacheStep(p)
        /\ (call[p].pc = "done" /\ ~Threw(call[p])) => ~call[p].raised
    /\ IF lastSet = 0 THEN DOMAIN store = {}
       ELSE /\ DOMAIN store = {Prefix}
            /\ store[Prefix].value = JSONstringify(call[lastSet].data)

C16_Witness ==
    /\ \A p \in {1, 2} :
        /\ call[p].pc = "done" /\ Missed(call[p])
        /\ Len(call[p].outs) = 1 /\ call[p].sets = 1 /\ call[p].faults = {}
    /\ call[1].ret = Num(1) /\ call[2].ret = Num(0)
    /\ lastSet = 1 /\ store[Prefix].value = "1"

----------------------------------------------------------------------------
(* Properties of cacheLatest over filters, checked under SpecFilters *)

\* the finished cacheLatest call and the one before it have the same prefix
\* and their probes found the same latest record
SameLatestRecord ==
    /\ Finished("cacheLatest") /\ prev.fn = "cacheLatest"
    /\ prev.key = cur.key
    /\ prev.probe = "ok" /\ cur.probe = "ok"
    /\ prev.latest = cur.latest

\* C17: two cacheLatest calls with one prefix whose filters give the same
\* latest record use the same derived key, whatever their filters and
\* operation names; the second call reads the entry the first has written
\* (when it wrote one that is still there and the read does not fail) and
\* returns it, without running its own operation
C17_KeyIgnoresFilter ==
    SameLatestRecord =>
        /\ cur.cacheKey = prev.cacheKey
        /\ (/\ ~prev.hit /\ ~prev.threw /\ prev.faults = {}
            /\ ~prev.since.disturbed /\ cur.faults = {})
            => /\ cur.hit /\ cur.outs = <<>> /\ ~cur.raised
               /\ cur.ret = prev.ret

C17_Witness ==
    /\ SameLatestRecord
    /\ prev.queryFunction = "findMany" /\ prev.conditions = [where |-> "isAdmin"]
    /\ cur.queryFunction = "count" /\ cur.conditions = [where |-> "any"]
    /\ db[1].present /\ db[2].present
    /\ cur.hit /\ cur.ret = Arr(<<Obj(2, TRUE)>>)

----------------------------------------------------------------------------
(* Bounds on one cache call, checked under SpecCache *)

\* C18: whatever the store and the producer do, a cache call invokes the
\* producer at most three times, reads the store at most once and writes it
\* at most once; it raises only when the last producer invocation it made
\* threw, and then with that error; when the last invocation returned, the
\* call returns its value
C18_BoundedCall ==
    (cur.fn = "cache") =>
        /\ Len(cur.outs) <= 3 /\ cur.gets <= 1 /\ cur.sets <= 1
        /\ cur.raised =>
            /\ cur.pc = "done" /\ cur.outs # <<>>
            /\ cur.outs[Len(cur.outs)] = Thrown
            /\ cur.error = "input"
        /\ (cur.pc = "done" /\ cur.outs # <<>>
                /\ cur.outs[Len(cur.outs)] # Thrown) =>
            /\ ~cur.raised /\ cur.ret = cur.outs[Len(cur.outs)]

C18_Witness ==
    /\ Finished("cache") /\ cur.gets = 1 /\ cur.sets = 1
    /\ cur.outs = <<Num(0), Thrown, Num(1)>>
    /\ cur.ret = Num(1)

----------------------------------------------------------------------------
(* Properties of concurrent cacheLatest calls, checked under SpecConc *)

\* the step in which the cacheLatest call of process p returns a value
Returns(p) ==
    /\ call[p].fn = "cacheLatest" /\ call[p].pc # "done"
    /\ call'[p].pc = "done" /\ ~call'[p].raised

====
